---- MODULE Spec2Model ----
(***************************************************************************)
(* HybridMerkleTree (src/src/merkle.rs) with its helpers                   *)
(* precomputed_hashes and compute_merkle_root_rust (src/src/helpers.rs).  *)
(*                                                                         *)
(* Field elements are symbolic terms.  An atom <<n>> is a field element    *)
(* that is given from outside (a leaf value, or the base constant of the   *)
(* null-hash chain); Poseidon::hash(a, b) is the pair <<a, b>>, so the     *)
(* compression function is deterministic and collision-free.               *)
(*                                                                         *)
(* Rust vectors are 0-based, TLA+ sequences 1-based: v[k] in the source is *)
(* v[k + 1] here.                                                          *)
(***************************************************************************)
EXTENDS Integers, Sequences, FiniteSets, TLC

\* ---- bounds ------------------------------------------------------------
MaxHeight == 3      \* trees of height 1..MaxHeight are constructed
MaxLeaf == 2        \* leaf values are the atoms <<0>> .. <<MaxLeaf>>
MaxLeaves == 5      \* add_leaf is called at most MaxLeaves times
MaxIndex == 6       \* path is called with an index in 0..MaxIndex

\* ---- field elements ----------------------------------------------------
\* The atom standing for the 32-byte base constant of precomputed_hashes.
BaseAtom == 0

Atom(n) == <<n>>

base == Atom(BaseAtom)

Poseidon_hash(a, b) == <<a, b>>

LeafValues == { Atom(n) : n \in 0..MaxLeaf }

Heights == 1..MaxHeight

RECURSIVE Pow2(_)
Pow2(n) == IF n <= 0 THEN 1 ELSE 2 * Pow2(n - 1)

\* ---- helpers.rs --------------------------------------------------------
\* precomputed_hashes whose loop runs over 0..height
RECURSIVE precomputed_hashes_Extra(_)
precomputed_hashes_Extra(h) ==
    IF h <= 0 THEN <<base>>
    ELSE LET prev == precomputed_hashes_Extra(h - 1)
         IN  Append(prev, Poseidon_hash(prev[Len(prev)], prev[Len(prev)]))

\* hashes.push(base); for _ in 1..height { current = hash(current, current);
\* hashes.push(current) }   (one element even when height = 0)
RECURSIVE precomputed_hashes(_)
precomputed_hashes(h) ==
    IF h <= 1 THEN <<base>>
    ELSE LET prev == precomputed_hashes(h - 1)
         IN  Append(prev, Poseidon_hash(prev[Len(prev)], prev[Len(prev)]))

\* index is a u32; the indices passed here stay far below 2^32
RECURSIVE compute_merkle_root_rust(_, _, _)
compute_merkle_root_rust(leaf, index, hash_path) ==
    IF hash_path = <<>> THEN leaf
    ELSE LET sibling == Head(hash_path)
             current == IF index % 2 = 1
                        THEN Poseidon_hash(sibling, leaf)
                        ELSE Poseidon_hash(leaf, sibling)
         IN  compute_merkle_root_rust(current, index \div 2, Tail(hash_path))

\* ---- merkle.rs: the struct and its methods as pure operators ------------
\* A tree value is a record of the struct's fields.  The field panic of a
\* call's result is "" while the call runs normally and holds the panic
\* message once the call has panicked.

\* new with left_path filled with the base value at every level
new_FlatFringe(h) ==
    [ height      |-> h,
      precomputed |-> precomputed_hashes(h),
      left_path   |-> [i \in 1..h |-> base],
      layers      |-> [i \in 1..h |-> <<>>],
      free_index  |-> 0 ]

new(h) ==
    [ height      |-> h,
      precomputed |-> precomputed_hashes(h),
      left_path   |-> precomputed_hashes(h),
      layers      |-> [i \in 1..h |-> <<>>],
      free_index  |-> 0 ]

OutOfBounds == "index out of bounds"

\* v[k] of the source is defined
InBounds(v, k) == k >= 0 /\ k < Len(v)

\* The body of `for i in 1..self.height` of add_leaf, in three parts.  st
\* carries the tree fields that the loop mutates and the locals hash_val and
\* index (the position at level i - 1, before `index /= 2`).

\* CombineLevel with the operands of the odd branch exchanged
CombineLevel_Swapped(t, st, i) ==
    IF st.index % 2 = 0
    THEN Poseidon_hash(st.hash_val, t.precomputed[i])
    ELSE Poseidon_hash(st.hash_val, st.left_path[i])

\* CombineLevel that takes the null value as the left sibling
CombineLevel_NullLeft(t, st, i) ==
    IF st.index % 2 = 0
    THEN Poseidon_hash(st.hash_val, t.precomputed[i])
    ELSE Poseidon_hash(t.precomputed[i], st.hash_val)

\* the new hash_val: with the null value on the right for an even index,
\* with the left sibling from left_path on the left for an odd one
CombineLevel(t, st, i) ==
    IF st.index % 2 = 0
    THEN Poseidon_hash(st.hash_val, t.precomputed[i])
    ELSE Poseidon_hash(st.left_path[i], st.hash_val)

\* FringeLevel that never records the left node
FringeLevel_Never(st, i) == st.left_path

\* FringeLevel that records the node in both branches
FringeLevel_Always(st, i) == [st.left_path EXCEPT ![i] = st.hash_val]

\* self.left_path[i - 1] = hash_val.clone(), in the even branch only
FringeLevel(st, i) ==
    IF st.index % 2 = 0
    THEN [st.left_path EXCEPT ![i] = st.hash_val]
    ELSE st.left_path

\* WriteLayer that pushes whether or not the slot exists
WriteLayer_AlwaysPush(layer, index, hash_val) == Append(layer, hash_val)

\* WriteLayer that overwrites the last slot of any non-empty layer
WriteLayer_KeepOne(layer, index, hash_val) ==
    IF Len(layer) > 0
    THEN [layer EXCEPT ![Len(layer)] = hash_val]
    ELSE Append(layer, hash_val)

\* if layer.len() > index { layer[index] = hash_val } else { layer.push(hash_val) }
WriteLayer(layer, index, hash_val) ==
    IF Len(layer) > index
    THEN [layer EXCEPT ![index + 1] = hash_val]
    ELSE Append(layer, hash_val)

\* HalveIndex with the division left out
HalveIndex_Skipped(index) == index

\* index /= 2
HalveIndex(index) == index \div 2

AddLeafLevel(t, st, i) ==
    IF st.panic # "" THEN st
    ELSE IF ~InBounds(t.precomputed, i - 1) \/ ~InBounds(st.left_path, i - 1)
            \/ ~InBounds(st.layers, i)
    THEN [st EXCEPT !.panic = OutOfBounds]
    ELSE
      LET combined == CombineLevel(t, st, i)
          idx == HalveIndex(st.index)
      IN  [ left_path |-> FringeLevel(st, i),
            layers    |-> [st.layers EXCEPT
                              ![i + 1] = WriteLayer(@, idx, combined)],
            hash_val  |-> combined,
            index     |-> idx,
            panic     |-> "" ]

\* the iterations i, i + 1, .. of `for i in 1..self.height`
RECURSIVE AddLeafLoop(_, _, _)
AddLeafLoop(t, st, i) ==
    IF i > t.height - 1 THEN st
    ELSE AddLeafLoop(t, AddLeafLevel(t, st, i), i + 1)

\* StoreRoot with the write left out
StoreRoot_Forgotten(t, st) == st

\* self.left_path[self.height - 1] = hash_val, after the loop
StoreRoot(t, st) == [st EXCEPT !.left_path[t.height] = st.hash_val]

\* PushLeaf that inserts the leaf at the front of layers[0]
PushLeaf_Front(t, leaf) ==
    [ left_path |-> t.left_path,
      layers    |-> IF InBounds(t.layers, 0)
                    THEN [t.layers EXCEPT ![1] = <<leaf>> \o @]
                    ELSE t.layers,
      hash_val  |-> leaf,
      index     |-> t.free_index,
      panic     |-> IF InBounds(t.layers, 0) THEN "" ELSE OutOfBounds ]

\* let mut hash_val = leaf.clone(); let mut index = self.free_index;
\* self.layers[0].push(leaf.clone());   (free_index += 1 is in add_leaf)
PushLeaf(t, leaf) ==
    [ left_path |-> t.left_path,
      layers    |-> IF InBounds(t.layers, 0)
                    THEN [t.layers EXCEPT ![1] = Append(@, leaf)]
                    ELSE t.layers,
      hash_val  |-> leaf,
      index     |-> t.free_index,
      panic     |-> IF InBounds(t.layers, 0) THEN "" ELSE OutOfBounds ]

\* add_leaf: the tree after the call, with field panic
add_leaf(t, leaf) ==
    LET pushed == PushLeaf(t, leaf)
        st == AddLeafLoop(t, pushed, 1)
        final == IF st.panic # "" THEN st
                 ELSE IF ~InBounds(st.left_path, t.height - 1)
                 THEN [st EXCEPT !.panic = OutOfBounds]
                 ELSE StoreRoot(t, st)
    IN  [ tree  |-> [t EXCEPT !.free_index = t.free_index + 1,
                              !.left_path = final.left_path,
                              !.layers = final.layers],
          panic |-> final.panic ]

root(t) == t.left_path[t.height]

LeafDoesNotExist == "Leaf does not exist!"

\* PathSibling that never looks for a materialized right neighbour
PathSibling_NullRight(t, index, i) ==
    LET layer == t.layers[i + 1]
    IN  IF index % 2 = 1 THEN layer[index]
        ELSE t.precomputed[i + 1]

\* PathSibling that reads layers[i][index] for a right child
PathSibling_OwnSlot(t, index, i) ==
    LET layer == t.layers[i + 1]
    IN  IF index % 2 = 1 THEN layer[index + 1]
        ELSE IF index + 1 < Len(layer) THEN layer[index + 2]
        ELSE t.precomputed[i + 1]

\* The sibling of position index of layers[i]: the left neighbour of a right
\* child; for a left child the right neighbour when it exists, else the null
\* value of the level.
PathSibling(t, index, i) ==
    LET layer == t.layers[i + 1]
    IN  IF index % 2 = 1 THEN layer[index]
        ELSE IF index + 1 < Len(layer) THEN layer[index + 2]
        ELSE t.precomputed[i + 1]

\* One iteration of `for i in 0..(self.height - 1)` of path.
PathLevel(t, st, i) ==
    IF st.panic # "" THEN st
    ELSE
      LET is_right == st.index % 2 = 1
      IN  IF is_right /\ ~InBounds(t.layers[i + 1], st.index - 1)
          THEN [st EXCEPT !.panic = OutOfBounds]
          ELSE [ elements |-> Append(st.elements, PathSibling(t, st.index, i)),
                 indices  |-> Append(st.indices, is_right),
                 index    |-> st.index \div 2,
                 panic    |-> "" ]

\* PathLoop over 0..=(self.height - 1)
RECURSIVE PathLoop_Inclusive(_, _, _)
PathLoop_Inclusive(t, st, i) ==
    IF i > t.height - 1 THEN st
    ELSE PathLoop_Inclusive(t, PathLevel(t, st, i), i + 1)

\* the iterations i, i + 1, .. of `for i in 0..(self.height - 1)`
RECURSIVE PathLoop(_, _, _)
PathLoop(t, st, i) ==
    IF i > t.height - 2 THEN st
    ELSE PathLoop(t, PathLevel(t, st, i), i + 1)

\* LeafMissing with > for >=
LeafMissing_OffByOne(t, index) == index > Len(t.layers[1])

\* if index >= self.layers[0].len() { panic!("Leaf does not exist!") }
LeafMissing(t, index) == index >= Len(t.layers[1])

\* path: the pair (elements, indices), or the panic
path(t, index) ==
    IF LeafMissing(t, index)
    THEN [ elements |-> <<>>, indices |-> <<>>, index |-> index,
           panic |-> LeafDoesNotExist ]
    ELSE PathLoop(t, [ elements |-> <<>>, indices |-> <<>>, index |-> index,
                       panic |-> "" ], 0)

\* ---- the program: a tree, and the calls made on it ----------------------
VARIABLES height, precomputed, left_path, layers, free_index,
          inserted, lastCall, lastArg, ret, inflight

tree == [ height |-> height, precomputed |-> precomputed,
          left_path |-> left_path, layers |-> layers,
          free_index |-> free_index ]

treeVars == <<height, precomputed, left_path, layers, free_index>>

\* inserted is the history of the leaves passed to add_leaf, in call order;
\* lastCall, lastArg and ret describe the latest call and what it gave back;
\* inflight holds the position and the locals of an add_leaf that has begun
\* and not yet returned (only when add_leaf is taken step by step).
vars == <<height, precomputed, left_path, layers, free_index,
          inserted, lastCall, lastArg, ret, inflight>>

\* no add_leaf is under way
Idle == [pc |-> "idle", i |-> 0, hash_val |-> base, index |-> 0]

\* what a call gave back: kind is "Unit", "Felt", "Proof" or "Panic"
Unit == [kind |-> "Unit", value |-> <<>>]
FeltRet(f) == [kind |-> "Felt", value |-> <<f>>]
ProofRet(e, b) == [kind |-> "Proof", value |-> <<e, b>>]
PanicRet(msg) == [kind |-> "Panic", value |-> <<msg>>]

\* a panic unwinds the caller: no further call is made on the tree
Running == ret.kind # "Panic"

SetTree(t) ==
    /\ height' = t.height
    /\ precomputed' = t.precomputed
    /\ left_path' = t.left_path
    /\ layers' = t.layers
    /\ free_index' = t.free_index

Init ==
    \E h \in Heights :
        /\ height = new(h).height
        /\ precomputed = new(h).precomputed
        /\ left_path = new(h).left_path
        /\ layers = new(h).layers
        /\ free_index = new(h).free_index
        /\ inserted = <<>>
        /\ lastCall = "new"
        /\ lastArg = <<h>>
        /\ ret = Unit
        /\ inflight = Idle

AddLeaf(leaf) ==
    /\ Running
    /\ inflight = Idle
    /\ free_index < MaxLeaves
    /\ LET r == add_leaf(tree, leaf)
       IN  /\ SetTree(r.tree)
           /\ ret' = IF r.panic = "" THEN Unit ELSE PanicRet(r.panic)
    /\ inserted' = Append(inserted, leaf)
    /\ lastCall' = "add_leaf"
    /\ lastArg' = <<leaf>>
    /\ UNCHANGED inflight

\* Root that moves the value out of left_path, leaving the null value
Root_Taking ==
    /\ Running
    /\ ret' = FeltRet(root(tree))
    /\ lastCall' = "root"
    /\ lastArg' = <<>>
    /\ left_path' = [left_path EXCEPT ![height] = precomputed[height]]
    /\ UNCHANGED <<height, precomputed, layers, free_index, inserted,
                   inflight>>

Root ==
    /\ Running
    /\ ret' = FeltRet(root(tree))
    /\ lastCall' = "root"
    /\ lastArg' = <<>>
    /\ UNCHANGED <<treeVars, inserted, inflight>>

Path(index) ==
    /\ Running
    /\ LET r == path(tree, index)
       IN  ret' = IF r.panic = "" THEN ProofRet(r.elements, r.indices)
                  ELSE PanicRet(r.panic)
    /\ lastCall' = "path"
    /\ lastArg' = <<index>>
    /\ UNCHANGED <<treeVars, inserted, inflight>>

Next ==
    \/ \E leaf \in LeafValues : AddLeaf(leaf)
    \/ Root
    \/ \E index \in 0..MaxIndex : Path(index)

Spec == Init /\ [][Next]_vars

\* ---- add_leaf taken step by step, with readers in between --------------
\* The steps of one add_leaf call: the push of the leaf, one step for each
\* iteration of the loop over the levels, and the write of
\* left_path[height - 1].  root() and path() may be called between any two
\* of them; a second add_leaf may not begin before the first has returned.

\* the loop state of AddLeafLevel, read from the tree and from inflight
InflightState ==
    [ left_path |-> left_path, layers |-> layers,
      hash_val |-> inflight.hash_val, index |-> inflight.index,
      panic |-> "" ]

\* AddLeafBegin that runs the whole call in the one step
AddLeafBegin_Atomic(leaf) == AddLeaf(leaf)

\* lines 34 to 39 of add_leaf
AddLeafBegin(leaf) ==
    /\ Running
    /\ inflight.pc = "idle"
    /\ free_index < MaxLeaves
    /\ LET st == PushLeaf(tree, leaf)
       IN  /\ layers' = st.layers
           /\ free_index' = free_index + 1
           /\ IF st.panic = ""
              THEN /\ inflight' = [pc |-> "loop", i |-> 1,
                                   hash_val |-> st.hash_val,
                                   index |-> st.index]
                   /\ UNCHANGED <<lastCall, lastArg, ret>>
              ELSE /\ inflight' = Idle
                   /\ lastCall' = "add_leaf"
                   /\ lastArg' = <<leaf>>
                   /\ ret' = PanicRet(st.panic)
    /\ inserted' = Append(inserted, leaf)
    /\ UNCHANGED <<height, precomputed, left_path>>

\* one iteration of `for i in 1..self.height`
AddLeafStep ==
    /\ Running
    /\ inflight.pc = "loop"
    /\ inflight.i <= height - 1
    /\ LET st == AddLeafLevel(tree, InflightState, inflight.i)
       IN  /\ left_path' = st.left_path
           /\ layers' = st.layers
           /\ IF st.panic = ""
              THEN /\ inflight' = [pc |-> "loop", i |-> inflight.i + 1,
                                   hash_val |-> st.hash_val,
                                   index |-> st.index]
                   /\ UNCHANGED <<lastCall, lastArg, ret>>
              ELSE /\ inflight' = Idle
                   /\ lastCall' = "add_leaf"
                   /\ lastArg' = <<inserted[Len(inserted)]>>
                   /\ ret' = PanicRet(st.panic)
    /\ UNCHANGED <<height, precomputed, free_index, inserted>>

\* self.left_path[self.height - 1] = hash_val, and the return
AddLeafEnd ==
    /\ Running
    /\ inflight.pc = "loop"
    /\ inflight.i > height - 1
    /\ IF InBounds(left_path, height - 1)
       THEN /\ left_path' = StoreRoot(tree, InflightState).left_path
            /\ ret' = Unit
       ELSE /\ UNCHANGED left_path
            /\ ret' = PanicRet(OutOfBounds)
    /\ inflight' = Idle
    /\ lastCall' = "add_leaf"
    /\ lastArg' = <<inserted[Len(inserted)]>>
    /\ UNCHANGED <<height, precomputed, layers, free_index, inserted>>

NextSteps ==
    \/ \E leaf \in LeafValues : AddLeafBegin(leaf)
    \/ AddLeafStep
    \/ AddLeafEnd
    \/ Root
    \/ \E index \in 0..MaxIndex : Path(index)

SpecSteps == Init /\ [][NextSteps]_vars

\* ---- what the claims speak of -------------------------------------------
\* the capacity 2^(height - 1) of a tree of the given height
Capacity(h) == Pow2(h - 1)

WithinCapacity == free_index <= Capacity(height)

\* zero[i], computed apart from precomputed_hashes
RECURSIVE Zero(_)
Zero(i) == IF i = 0 THEN base ELSE Poseidon_hash(Zero(i - 1), Zero(i - 1))

\* The reference tree: the leaves at positions 0..N-1, zero[0] at the others
\* up to 2^(h-1), reduced level by level.
PaddedLeaves(h, leaves) ==
    [p \in 1..Capacity(h) |-> IF p <= Len(leaves) THEN leaves[p] ELSE Zero(0)]

RECURSIVE Reduce(_)
Reduce(level) ==
    IF Len(level) = 1 THEN level[1]
    ELSE Reduce([p \in 1..(Len(level) \div 2) |->
                    Poseidon_hash(level[2 * p - 1], level[2 * p])])

ReferenceRoot(h, leaves) == Reduce(PaddedLeaves(h, leaves))

CeilDiv(a, b) == (a + b - 1) \div b

\* bit i of index
Bit(index, i) == (index \div Pow2(i)) % 2

\* an explicit error returned to the caller (no call of the source gives one)
ErrRet(e) == [kind |-> "Err", value |-> <<e>>]

\* ---- C1 ------------------------------------------------------------------
\* C1: after every prefix of N <= 2^(height-1) insertions, root() equals the
\* root of the reference full binary tree over the inserted leaves padded
\* with zero[0].
C1_AppendCorrectness ==
    WithinCapacity => root(tree) = ReferenceRoot(height, inserted)

C1_Witness ==
    /\ height = 3 /\ free_index = 3 /\ lastCall = "add_leaf"
    /\ inserted = <<Atom(1), Atom(2), Atom(1)>>
    /\ root(tree) = Poseidon_hash(Poseidon_hash(Atom(1), Atom(2)),
                                  Poseidon_hash(Atom(1), base))

\* ---- C2 ------------------------------------------------------------------
\* C2: within capacity, for every inserted index i the proof path(i), replayed
\* by compute_merkle_root_rust from leaf i, gives the current root().
C2_RoundTrip ==
    WithinCapacity =>
        \A i \in 0..(free_index - 1) :
            /\ path(tree, i).panic = ""
            /\ compute_merkle_root_rust(inserted[i + 1], i,
                                        path(tree, i).elements) = root(tree)

\* a proof for the old leaf 1, asked for after two later insertions
C2_Witness ==
    /\ height = 3 /\ free_index = 4 /\ lastCall = "path" /\ lastArg = <<1>>
    /\ ret.kind = "Proof"
    /\ inserted[2] # inserted[4]
    /\ compute_merkle_root_rust(inserted[2], 1, ret.value[1])
           = root(tree)

\* ---- C3 ------------------------------------------------------------------
\* C3: free_index never exceeds the capacity 2^(height-1), and an add_leaf
\* beyond it is answered with the error CapacityExceeded.
C3_CapacityEnforced ==
    /\ WithinCapacity
    /\ (lastCall = "add_leaf" /\ Len(inserted) > Capacity(height))
           => ret = ErrRet("CapacityExceeded")

\* ---- C4 ------------------------------------------------------------------
\* C4 as stated: path(k) with k >= the number of inserted leaves gives the
\* caller the explicit error LeafNotFound, and no other call of path does.
C4_LeafNotFoundIsAnError ==
    lastCall = "path" =>
        (ret = ErrRet("LeafNotFound") <=> lastArg[1] >= Len(inserted))

\* C4 as amended: path(k) panics with "Leaf does not exist!" exactly when
\* k >= the number of inserted leaves, and a call of path, failing or not,
\* leaves the fields of the tree as they were.
C4_LeafNotFoundIsAPanic ==
    /\ [](lastCall = "path" =>
            /\ ret = PanicRet(LeafDoesNotExist) <=> lastArg[1] >= Len(inserted)
            /\ ret.kind \in {"Proof", "Panic"})
    /\ [][lastCall' = "path" => UNCHANGED treeVars]_vars

C4_Witness ==
    /\ lastCall = "path" /\ lastArg = <<2>> /\ free_index = 2 /\ height = 3
    /\ ret = PanicRet(LeafDoesNotExist)

\* ---- C5 ------------------------------------------------------------------
\* C5: with zero insertions root() is zero[height-1], free_index is 0, every
\* layer is empty and left_path is the zero-hash chain.
C5_EmptyTree ==
    Len(inserted) = 0 =>
        /\ root(tree) = Zero(height - 1)
        /\ free_index = 0
        /\ Len(layers) = height
        /\ \A i \in 1..height : layers[i] = <<>>
        /\ left_path = [i \in 1..height |-> Zero(i - 1)]

C5_Witness ==
    /\ height = 3 /\ Len(inserted) = 0 /\ lastCall = "root"
    /\ ret = FeltRet(Poseidon_hash(Poseidon_hash(base, base),
                                   Poseidon_hash(base, base)))

\* ---- C6 ------------------------------------------------------------------
\* C6 as stated: after one or more insertions within capacity, of any leaf
\* values, root() differs from zero[height-1].
C6_NonEmptyRootIsNotNull ==
    (free_index >= 1 /\ WithinCapacity) => root(tree) # Zero(height - 1)

\* C6 as amended: after one or more insertions within capacity, at least one
\* of them of a value other than zero[0], root() differs from zero[height-1].
C6_NonNullLeafRootIsNotNull ==
    (/\ free_index >= 1
     /\ WithinCapacity
     /\ \E k \in 1..Len(inserted) : inserted[k] # Zero(0))
        => root(tree) # Zero(height - 1)

C6_Witness ==
    /\ height = 3 /\ free_index = 2 /\ lastCall = "add_leaf"
    /\ inserted = <<base, Atom(1)>>
    /\ root(tree) # Zero(2)

\* ---- C7 ------------------------------------------------------------------
\* C7: in a proof, the boolean of level i is true exactly when the sibling
\* of level i is on the right, that is when bit i of the index is 0.
C7_SideBitMeansSiblingOnRight ==
    (lastCall = "path" /\ ret.kind = "Proof") =>
        \A i \in 0..(Len(ret.value[2]) - 1) :
            ret.value[2][i + 1] = (Bit(lastArg[1], i) = 0)

\* ---- C8 ------------------------------------------------------------------
\* C8: within capacity, the proofs of two distinct indices that hold distinct
\* leaf values differ in their siblings and in their side bits.
C8_Distinctness ==
    WithinCapacity =>
        \A i, j \in 0..(free_index - 1) :
            (i # j /\ inserted[i + 1] # inserted[j + 1]) =>
                /\ path(tree, i).elements # path(tree, j).elements
                /\ path(tree, i).indices # path(tree, j).indices

C8_Witness ==
    /\ height = 3 /\ free_index = 3 /\ lastCall = "path" /\ lastArg = <<1>>
    /\ inserted = <<Atom(1), base, base>>
    /\ ret.kind = "Proof"
    /\ ret.value[1] # path(tree, 0).elements
    /\ ret.value[2] # path(tree, 0).indices

\* ---- C9 ------------------------------------------------------------------
\* C9: layers[i].len() is ceil(free_index / 2^i) at every level i.
C9_LayerLengths ==
    \A i \in 0..(height - 1) :
        Len(layers[i + 1]) = CeilDiv(free_index, Pow2(i))

C9_Witness ==
    /\ height = 3 /\ free_index = 3 /\ lastCall = "add_leaf"
    /\ Len(layers[1]) = 3 /\ Len(layers[2]) = 2 /\ Len(layers[3]) = 1

\* ---- C10 -----------------------------------------------------------------
\* C10: root() and path(k) leave layers, left_path and free_index unchanged,
\* and a query repeated with no add_leaf in between gives the same value.
C10_QueriesReadOnly ==
    /\ [][lastCall' \in {"root", "path"} => UNCHANGED treeVars]_vars
    /\ [][(/\ lastCall \in {"root", "path"}
           /\ lastCall' \in {"root", "path"}
           /\ ret.kind # "Panic")
              => /\ root(tree') = root(tree)
                 /\ \A k \in 0..MaxIndex : path(tree', k) = path(tree, k)]_vars
    /\ [](lastCall = "root" => ret = FeltRet(root(tree)))
    /\ []((lastCall = "path" /\ ret.kind = "Proof") =>
              ret = ProofRet(path(tree, lastArg[1]).elements,
                             path(tree, lastArg[1]).indices))

C10_Witness ==
    /\ height = 3 /\ free_index = 2 /\ lastCall = "root"
    /\ ret = FeltRet(Poseidon_hash(Poseidon_hash(inserted[1], inserted[2]),
                                   Zero(1)))

\* ---- C11 -----------------------------------------------------------------
\* C11: an add_leaf(v) that returns raises free_index by exactly 1 and
\* appends v at the end of layers[0]; free_index never decreases; layers[0]
\* is at all times the sequence of the inserted leaves in insertion order.
C11_AppendOnlyLeafLog ==
    /\ [](layers[1] = inserted /\ free_index = Len(inserted))
    /\ [][free_index' >= free_index]_vars
    /\ [][(lastCall' = "add_leaf" /\ inserted' # inserted /\ ret' = Unit) =>
            /\ free_index' = free_index + 1
            /\ layers'[1] = Append(layers[1], lastArg'[1])
            /\ inserted' = Append(inserted, lastArg'[1])]_vars

C11_Witness ==
    /\ height = 3 /\ free_index = 3 /\ lastCall = "add_leaf"
    /\ lastArg = <<base>> /\ ret = Unit
    /\ layers[1] = <<Atom(1), Atom(2), base>>

\* ---- C12 -----------------------------------------------------------------
\* C12: the chain built for height H has exactly H elements, starts with the
\* base constant, continues with compress(previous, previous), and is a
\* prefix of the chain built for H + 1.
C12_ZeroHashChain ==
    /\ Len(precomputed) = height
    /\ precomputed[1] = Atom(BaseAtom)
    /\ \A i \in 2..height :
           precomputed[i] = Poseidon_hash(precomputed[i - 1], precomputed[i - 1])
    /\ precomputed = precomputed_hashes(height)
    /\ Len(precomputed_hashes(height + 1)) = height + 1
    /\ SubSeq(precomputed_hashes(height + 1), 1, height) = precomputed

C12_Witness ==
    /\ height = 3 /\ lastCall = "new"
    /\ precomputed = <<base, Poseidon_hash(base, base),
                       Poseidon_hash(Poseidon_hash(base, base),
                                     Poseidon_hash(base, base))>>

\* ---- C13 -----------------------------------------------------------------
\* C13 as stated: the add_leaf called with free_index = 2^(height-1) runs
\* out of the bounds of layers, left_path or the zero chain and faults.
C13_OverflowFaults ==
    (lastCall = "add_leaf" /\ Len(inserted) = Capacity(height) + 1)
        => ret = PanicRet(OutOfBounds)

\* the leaves of the block of 2^(height-1) positions that holds the last leaf
LastBlock ==
    SubSeq(inserted,
           Capacity(height) * ((Len(inserted) - 1) \div Capacity(height)) + 1,
           Len(inserted))

\* C13 as amended: the add_leaf called with free_index >= 2^(height-1) stays
\* within all bounds and returns normally; layers[height-1] gets an entry
\* beyond its first and root() becomes the root of the tree of the leaves
\* inserted since the last multiple of the capacity.
C13_OverflowCompletes ==
    (lastCall = "add_leaf" /\ Len(inserted) > Capacity(height)) =>
        /\ ret = Unit
        /\ free_index = Len(inserted)
        /\ Len(layers[height]) = CeilDiv(free_index, Capacity(height))
        /\ Len(layers[height]) >= 2
        /\ root(tree) = ReferenceRoot(height, LastBlock)

C13_Witness ==
    /\ height = 3 /\ free_index = 5 /\ lastCall = "add_leaf" /\ ret = Unit
    /\ Len(layers[3]) = 2
    /\ root(tree) = Poseidon_hash(Poseidon_hash(inserted[5], Zero(0)), Zero(1))

\* ---- C14 -----------------------------------------------------------------
\* an iteration of the loop of add_leaf is about to run, for level inflight.i
AtLevel == inflight.pc = "loop" /\ inflight.i <= height - 1

\* the index of the leaf that the add_leaf under way inserts
InflightLeaf == free_index - 1

\* C14: at every level i >= 1 of every add_leaf, the position written,
\* leaf index >> i, is the last slot of layers[i] or one past it, and after
\* the write the hash sits at exactly that position, which is then the last.
C14_WritePosition ==
    /\ [](AtLevel =>
            LET target == InflightLeaf \div Pow2(inflight.i)
                len == Len(layers[inflight.i + 1])
            IN  /\ target = len - 1 \/ target = len
                /\ inflight.index = InflightLeaf \div Pow2(inflight.i - 1))
    /\ [][(AtLevel /\ inflight'.pc = "loop" /\ inflight'.i = inflight.i + 1) =>
            LET target == InflightLeaf \div Pow2(inflight.i)
                layer == layers'[inflight.i + 1]
            IN  /\ inflight'.index = target
                /\ Len(layer) = target + 1
                /\ layer[target + 1] = inflight'.hash_val]_vars

\* level 2 is about to overwrite its only slot for the second leaf
C14_Witness ==
    /\ height = 3 /\ free_index = 2 /\ AtLevel /\ inflight.i = 2
    /\ Len(layers[3]) = 1
    /\ InflightLeaf \div Pow2(2) = 0

\* ---- C15 -----------------------------------------------------------------
\* C15: whenever add_leaf is about to take the odd branch at level i,
\* left_path[i-1] holds the current value of the left sibling
\* layers[i-1][index-1].
C15_LeftFringeConsistent ==
    (AtLevel /\ (InflightLeaf \div Pow2(inflight.i - 1)) % 2 = 1) =>
        LET pos == InflightLeaf \div Pow2(inflight.i - 1)
        IN  /\ inflight.index = pos
            /\ InBounds(layers[inflight.i], pos - 1)
            /\ left_path[inflight.i] = layers[inflight.i][pos]

\* the fourth leaf at level 2: the left sibling is the hash of leaves 0, 1
C15_Witness ==
    /\ height = 3 /\ free_index = 4 /\ AtLevel /\ inflight.i = 2
    /\ inflight.index = 1
    /\ inserted[1] # inserted[3]
    /\ left_path[2] = Poseidon_hash(inserted[1], inserted[2])

\* ---- C16 -----------------------------------------------------------------
\* C16: for every index below layers[0].len(), path reads no slot out of
\* bounds (the left neighbour of every odd position exists) and returns
\* exactly height-1 siblings and height-1 side bits.
C16_PathFaultFree ==
    \A k \in 0..(Len(layers[1]) - 1) :
        /\ path(tree, k).panic = ""
        /\ Len(path(tree, k).elements) = height - 1
        /\ Len(path(tree, k).indices) = height - 1
        /\ \A i \in 0..(height - 2) :
               Bit(k, i) = 1 =>
                   InBounds(layers[i + 1], (k \div Pow2(i)) - 1)

C16_Witness ==
    /\ height = 3 /\ free_index = 3 /\ lastCall = "path" /\ lastArg = <<2>>
    /\ ret.kind = "Proof"
    /\ Len(ret.value[1]) = 2 /\ Len(ret.value[2]) = 2
    /\ ret.value[2] = <<FALSE, TRUE>>

\* ---- C17 -----------------------------------------------------------------
\* the proof of index k, replayed from the k-th inserted leaf, gives root()
RoundTrip(k) ==
    /\ path(tree, k).panic = ""
    /\ compute_merkle_root_rust(inserted[k + 1], k, path(tree, k).elements)
           = root(tree)

\* an add_leaf within capacity, of a leaf other than zero[0], has pushed its
\* leaf and has not yet written left_path[height-1]
MidFlight ==
    /\ inflight.pc = "loop"
    /\ WithinCapacity
    /\ inserted[Len(inserted)] # Zero(0)

\* C17: with add_leaf taken step by step and readers in between, the states
\* between the push of the leaf and the write of left_path[height-1] break
\* the round trip: the leaf under insertion has a proof, and it does not
\* replay to root().  The same holds right after the first step; with no
\* add_leaf under way the round trip holds for every index.
C17_NonAtomicAddLeaf ==
    /\ [](MidFlight => (/\ path(tree, InflightLeaf).panic = ""
                        /\ ~RoundTrip(InflightLeaf)))
    /\ [][(/\ inserted' # inserted
           /\ free_index' <= Capacity(height)
           /\ inserted'[Len(inserted')] # Zero(0))
             => compute_merkle_root_rust(
                    inserted'[free_index'], free_index,
                    path([tree EXCEPT !.layers = layers',
                                      !.left_path = left_path',
                                      !.free_index = free_index'],
                         free_index).elements) # left_path'[height]]_vars
    /\ []((inflight.pc = "idle" /\ WithinCapacity) =>
              \A k \in 0..(free_index - 1) : RoundTrip(k))

\* a reader asks for the proof of leaf 0 while leaf 1 is being inserted:
\* the proof holds the new leaf already, root() is still the old root
C17_Witness ==
    /\ height = 3 /\ free_index = 2 /\ inflight.pc = "loop"
    /\ lastCall = "path" /\ lastArg = <<0>> /\ ret.kind = "Proof"
    /\ ret.value[1][1] = inserted[2]
    /\ inserted[2] # Zero(0)
    /\ compute_merkle_root_rust(inserted[1], 0, ret.value[1]) # root(tree)
    /\ ~RoundTrip(0)

\* ---- C18 -----------------------------------------------------------------
\* C18: every materialized node layers[i][j], i >= 1, is the compression of
\* layers[i-1][2j] with layers[i-1][2j+1] when that exists and with zero[i-1]
\* otherwise.
C18_StructuralConsistency ==
    \A i \in 1..(height - 1) :
        \A j \in 0..(Len(layers[i + 1]) - 1) :
            /\ InBounds(layers[i], 2 * j)
            /\ layers[i + 1][j + 1] =
                   Poseidon_hash(layers[i][2 * j + 1],
                                 IF InBounds(layers[i], 2 * j + 1)
                                 THEN layers[i][2 * j + 2]
                                 ELSE Zero(i - 1))

C18_Witness ==
    /\ height = 3 /\ free_index = 3 /\ lastCall = "add_leaf"
    /\ inserted[1] # inserted[2]
    /\ layers[3] = <<Poseidon_hash(Poseidon_hash(inserted[1], inserted[2]),
                                   Poseidon_hash(inserted[3], Zero(0)))>>

\* ---- C19 -----------------------------------------------------------------
\* C19: the add_leaf of leaf n changes in layers[i] only the entry n >> i
\* (created or overwritten), in left_path only levels below height-1 where
\* n >> i is even and left_path[height-1]; the zero chain and height stay.
C19_AddLeafFrame ==
    [][inserted' # inserted =>
        LET n == free_index
        IN  /\ \A lv \in 0..(height - 1) :
                   LET old == layers[lv + 1]
                       new_ == layers'[lv + 1]
                       pos == n \div Pow2(lv)
                   IN  /\ Len(new_) >= Len(old)
                       /\ \A j \in 0..(Len(new_) - 1) :
                              j # pos => /\ InBounds(old, j)
                                         /\ new_[j + 1] = old[j + 1]
                       /\ InBounds(new_, pos)
            /\ \A lv \in 0..(height - 2) :
                   Bit(n, lv) = 1 => left_path'[lv + 1] = left_path[lv + 1]
            /\ Len(layers') = Len(layers)
            /\ Len(left_path') = Len(left_path)
            /\ precomputed' = precomputed
            /\ height' = height]_vars

\* after the fourth leaf the subtree of leaves 0, 1 is as it was
C19_Witness ==
    /\ height = 3 /\ free_index = 4 /\ lastCall = "add_leaf"
    /\ inserted[1] # inserted[4]
    /\ layers[2][1] = Poseidon_hash(inserted[1], inserted[2])
    /\ left_path[2] = Poseidon_hash(inserted[1], inserted[2])
    /\ left_path[1] = inserted[3]

====
